---- MODULE Spec2Model ----
(***************************************************************************)
(* A model of the MNIST IDX reader (include/mnist/mnist_reader.hpp):       *)
(* read_header, read_mnist_image_file, read_mnist_label_file, the dataset  *)
(* assembler read_dataset_direct / read_dataset and MNIST_dataset's        *)
(* resize_training / resize_test.                                          *)
(*                                                                         *)
(* A file is a sequence of bytes 0..255.  A uint32_t is a sequence of four *)
(* base-256 digits, least significant first, so that the arithmetic of the *)
(* code keeps its 32-bit width (products and sums are cut to four digits). *)
(***************************************************************************)
EXTENDS Integers, Sequences, FiniteSets

(***************************************************************************)
(* Numbers as base-256 digit sequences, least significant digit first.     *)
(***************************************************************************)

\* Digit i (from 1) of d, 0 past its end.
Digit(d, i) == IF i <= Len(d) THEN d[i] ELSE 0

\* Whether d is below 2^31, so that its value is an integer TLC can hold.
DFits(d) == /\ Digit(d, 4) < 128
            /\ \A i \in 1..Len(d) : i > 4 => d[i] = 0

RECURSIVE DValue(_)
\* The value of d (for DFits(d)).
DValue(d) == IF d = <<>> THEN 0 ELSE Head(d) + (256 * DValue(Tail(d)))

RECURSIVE DFromInt(_, _)
\* The k digits of the natural number n (n modulo 256^k).
DFromInt(n, k) == IF k = 0 THEN <<>> ELSE <<n % 256>> \o DFromInt(n \div 256, k - 1)

RECURSIVE DCarry(_, _)
\* Carry propagation over a sequence of column sums; the last carry is dropped.
DCarry(c, carry) ==
    IF c = <<>> THEN <<>>
    ELSE <<(Head(c) + carry) % 256>> \o DCarry(Tail(c), (Head(c) + carry) \div 256)

RECURSIVE ColumnSum(_, _, _, _)
\* Sum over p in 1..n of a's digit p times b's digit (i + 1 - p).
ColumnSum(a, b, i, n) ==
    IF n = 0 THEN 0
    ELSE (Digit(a, n) * (IF i + 1 - n >= 1 THEN Digit(b, i + 1 - n) ELSE 0))
         + ColumnSum(a, b, i, n - 1)

\* a * b modulo 256^k.
DMul(a, b, k) == DCarry([i \in 1..k |-> ColumnSum(a, b, i, i)], 0)

\* a + b modulo 256^k.
DAdd(a, b, k) == DCarry([i \in 1..k |-> Digit(a, i) + Digit(b, i)], 0)

\* n < d for an integer n below 2^31.
IntLess(n, d) == IF DFits(d) THEN n < DValue(d) ELSE TRUE

(***************************************************************************)
(* uint32_t arithmetic of the code.                                        *)
(***************************************************************************)
WordSize == 4

U32(n) == DFromInt(n, WordSize)

U32Mul(a, b) == DMul(a, b, WordSize)

U32Add(a, b) == DAdd(a, b, WordSize)

\* value << (8 * n) on a uint32_t.
ShiftLeftBytes(v, n) == [i \in 1..WordSize |-> IF i > n THEN v[i - n] ELSE 0]

\* value >> (8 * n) on a uint32_t.
ShiftRightBytes(v, n) == [i \in 1..WordSize |-> IF i + n <= WordSize THEN v[i + n] ELSE 0]

\* v & (0xFF << 8 * (k - 1)): keeps digit k only.
MaskByte(v, k) == [i \in 1..WordSize |-> IF i = k THEN v[i] ELSE 0]

\* a | b | c | d for words whose non-zero digits do not overlap.
Or4(a, b, c, d) == [i \in 1..WordSize |-> a[i] + b[i] + c[i] + d[i]]

(***************************************************************************)
(* Program constants.                                                      *)
(***************************************************************************)
ImageMagic == 2051          \* 0x803

LabelMagic == 2049          \* 0x801

ImageHeaderSize == 16       \* four header words

LabelHeaderSize == 8        \* two header words

ImageSide == 28             \* read_dataset_direct creates Image(1 * 28 * 28)

(***************************************************************************)
(* Bounds of the model.                                                    *)
(***************************************************************************)
\* The largest limit and the largest resize argument tried.
MaxLimit == 3

\* The most items one decode materialises in the model; a file that makes the
\* code build more (a wrapped size check) ends the run.
MaxItems == 4

Hosts == {"little", "big"}

\* The bytes a read past the end of the buffer may deliver (undefined behaviour).
JunkBytes == {0, 255}

TrainImagesPath == "mnist/train-images-idx3-ubyte"
TrainLabelsPath == "mnist/train-labels-idx1-ubyte"
TestImagesPath == "mnist/t10k-images-idx3-ubyte"
TestLabelsPath == "mnist/t10k-labels-idx1-ubyte"
Paths == {TrainImagesPath, TrainLabelsPath, TestImagesPath, TestLabelsPath}

MsgOpen == "Error opening file"
MsgMagic == "Invalid magic number, probably not a MNIST file"
MsgCorrupt == "The file is not large enough to hold all the data, probably corrupted"

(***************************************************************************)
(* The buffer: new char[size] filled by file.read.  char is signed on the  *)
(* modelled hosts; the code reads it back through unsigned char* and       *)
(* uint32_t*.                                                              *)
(***************************************************************************)
ToChar(b) == IF b >= 128 THEN b - 256 ELSE b

Buffer(bytes) == [i \in 1..Len(bytes) |-> ToChar(bytes[i])]

\* *reinterpret_cast<unsigned char*>(p) for p at offset off (from 0) of a
\* buffer of `size` bytes; a byte past its end reads as junk.
UnsignedAt(buffer, size, off, junk) ==
    IF off < size THEN (buffer[off + 1] + 256) % 256 ELSE junk

\* *(header + position): the host's native uint32_t load.
NativeLoad(buffer, position, host, junk) ==
    LET b(k) == UnsignedAt(buffer, Len(buffer), (WordSize * position) + k, junk)
    IN  IF host = "little" THEN <<b(0), b(1), b(2), b(3)>>
        ELSE <<b(3), b(2), b(1), b(0)>>

\* read_header without the byte swap.
read_header_noswap(buffer, position, host, junk) == NativeLoad(buffer, position, host, junk)

read_header(buffer, position, host, junk) ==
    LET value == NativeLoad(buffer, position, host, junk)
    IN  Or4(ShiftLeftBytes(value, 3),
            MaskByte(ShiftLeftBytes(value, 1), 3),
            MaskByte(ShiftRightBytes(value, 1), 2),
            ShiftRightBytes(value, 3))

\* Whether header word `position` lies inside the buffer.
HeaderInBuffer(buffer, position) == WordSize * (position + 1) <= Len(buffer)

\* static_cast<value_type>(pixel) for the uint8_t element type of read_dataset.
StaticCast(pixel) == pixel % 256

(***************************************************************************)
(* read_mnist_image_file.  An outcome is what one run of the decoder       *)
(* leaves: the path it took (kind), the container, the line it printed,    *)
(* the header words read_header returned on the way, and whether it ran    *)
(* into undefined behaviour (ub): a header word or a pixel read past the   *)
(* end of the buffer, or a pixel written past the end of an image.         *)
(***************************************************************************)
\* The buffer deleted only where the decode succeeds: new char[size] held by
\* a raw pointer.
Outcome_raw_buffer(kind, container, msg, ub, header) ==
    [kind |-> kind, container |-> container, msg |-> msg, ub |-> ub, aborted |-> FALSE,
     header |-> header, allocated |-> kind # "open", held |-> kind \in {"magic", "corrupt"}]

\* allocated: the run has made its buffer (every path but the open failure);
\* held: the buffer is still there when the call returns.  The buffer is a
\* std::unique_ptr local to the else block, deleted where the block ends.
Outcome(kind, container, msg, ub, header) ==
    [kind |-> kind, container |-> container, msg |-> msg, ub |-> ub, aborted |-> FALSE,
     header |-> header, allocated |-> kind # "open", held |-> FALSE]

\* func(): the image the functor creates, flen value-initialised elements.
func(flen) == [j \in 1..flen |-> 0]

\* The uint32_t d as an integer when it is at most cap, and cap + 1 when it
\* is more: a loop bound or an offset beyond every size the model holds.
Clamp(d, cap) == IF DFits(d) /\ DValue(d) <= cap THEN DValue(d) ELSE cap + 1

\* The offset of pixel j of image i is inside a buffer of `size` bytes: the
\* pointer has advanced by rows * columns (rc) for every image before i.
PixelInBuffer(i, j, rc, size) == ImageHeaderSize + (i * rc) + j < size

\* auto pixel = *image_buffer++ for pixel j of image i.
PixelAt(buffer, size, i, j, rc, junk) ==
    UnsignedAt(buffer, size, ImageHeaderSize + (i * rc) + j, junk)

\* for(i < count){ images.push_back(func()); for(j < rows * columns){
\*     images[i][j] = static_cast<value_type>(*image_buffer++); } }
\* Image i of the file is written to images[i], element i of the whole
\* container: a row the container already held when i is below its length on
\* entry, the row pushed in iteration i - Len(images) otherwise.  Only the
\* elements the row has are stored.
ImageRows(images, count, rc, flen, buffer, size, junk) ==
    [p \in 1..(Len(images) + count) |->
        LET row == IF p <= Len(images) THEN images[p] ELSE func(flen)
        IN  IF p <= count
            THEN [j \in 1..Len(row) |->
                     IF j - 1 < rc
                     THEN StaticCast(PixelAt(buffer, size, p - 1, j - 1, rc, junk))
                     ELSE row[j]]
            ELSE row]

\* The loops on the values of their arguments (the one-element sets have each
\* argument evaluated once, not once for every pixel).
ImageLoop(images, count, rc, flen, buffer, junk) ==
    CHOOSE result \in {ImageRows(i, n, r, flen, b, size, junk) :
                          i \in {images}, n \in {count}, r \in {rc}, b \in {buffer},
                          size \in {Len(buffer)}} : TRUE

\* Whether the loops read a pixel past the end of the buffer.
ReadsPastBuffer(count, rc, size) ==
    /\ count > 0
    /\ rc > 0
    /\ ~PixelInBuffer(count - 1, rc - 1, rc, size)

\* Whether the loops write a pixel past the end of an image: images[i] is
\* image i of the whole container, whatever it held before the call.
WritesPastImage(images, count, rc, flen) ==
    \E i \in 0..(count - 1) :
        (IF i < Len(images) THEN Len(images[i + 1]) ELSE flen) < rc

\* The longest row the loops may write to.
LongestRow(images, flen) ==
    IF \E i \in 1..Len(images) : Len(images[i]) > flen
    THEN CHOOSE n \in {Len(images[i]) : i \in 1..Len(images)} :
             \A i \in 1..Len(images) : Len(images[i]) <= n
    ELSE flen

\* if(magic != 0x803) and if(magic != 0x801)
MagicMismatch(magic, expected) == magic # U32(expected)

\* The size check of line 111, in uint32_t arithmetic.
ImageSizeCheckFails(size, count, rows, columns) ==
    IntLess(size, U32Add(U32Mul(U32Mul(count, rows), columns), U32(ImageHeaderSize)))

\* The decoder without its limit, as before limits were introduced.
ApplyLimit_unlimited(count, limit) == count

\* if(limit > 0 && count > limit) count = limit;
ApplyLimit(count, limit) ==
    IF limit > 0 /\ IntLess(limit, count) THEN U32(limit) ELSE count

\* One run of the decoder with the junk a read past the buffer delivers.
ImageDecode(images, file, limit, flen, host, junk) ==
    IF ~file.present THEN Outcome("open", images, MsgOpen, FALSE, <<>>)
    ELSE
    LET size == Len(file.bytes)
        buffer == Buffer(file.bytes)
        magic == read_header(buffer, 0, host, junk)
        count == read_header(buffer, 1, host, junk)
        rows == read_header(buffer, 2, host, junk)
        columns == read_header(buffer, 3, host, junk)
        n == ApplyLimit(count, limit)
        rc == Clamp(U32Mul(rows, columns), size + LongestRow(images, flen))
        header == <<magic, count, rows, columns>>
    IN  IF MagicMismatch(magic, ImageMagic)
        THEN Outcome("magic", images, MsgMagic, ~HeaderInBuffer(buffer, 0), <<magic>>)
        ELSE IF ImageSizeCheckFails(size, count, rows, columns)
        THEN Outcome("corrupt", images, MsgCorrupt, ~HeaderInBuffer(buffer, 3), header)
        ELSE IF ~(DFits(n) /\ DValue(n) <= MaxItems)
        THEN [Outcome("decoded", images, "", TRUE, header) EXCEPT !.aborted = TRUE]
        ELSE Outcome("decoded",
                     ImageLoop(images, DValue(n), rc, flen, buffer, junk),
                     "",
                     \/ ~HeaderInBuffer(buffer, 3)
                     \/ ReadsPastBuffer(DValue(n), rc, size)
                     \/ WritesPastImage(images, DValue(n), rc, flen),
                     header)

\* Every outcome of read_mnist_image_file(images, path, limit, func): on
\* undefined behaviour the run may deliver junk or end the program.
read_mnist_image_file(images, file, limit, flen, host) ==
    LET run == ImageDecode(images, file, limit, flen, host, 0)
    IN  IF ~run.ub THEN {run}     \* no junk is read: every run is this one
        ELSE {ImageDecode(images, file, limit, flen, host, junk) : junk \in JunkBytes}
             \cup {[run EXCEPT !.container = images, !.aborted = TRUE]}

(***************************************************************************)
(* read_mnist_label_file.                                                  *)
(***************************************************************************)
\* std::vector::resize(n): cut to n elements, or filled up with `fill`.
Resize(seq, n, fill) == [i \in 1..n |-> IF i <= Len(seq) THEN seq[i] ELSE fill]

\* The size check of line 167, in uint32_t arithmetic.
LabelSizeCheckFails(size, count) ==
    IntLess(size, U32Add(count, U32(LabelHeaderSize)))

\* labels.resize(count); for(i < count) labels[i] = *label_buffer++;
LabelRow(labels, count, buffer, size, junk) ==
    [i \in 1..Len(labels) |->
        IF i <= count
        THEN StaticCast(UnsignedAt(buffer, size, LabelHeaderSize + (i - 1), junk))
        ELSE labels[i]]

LabelLoop(labels, count, buffer, junk) ==
    CHOOSE result \in {LabelRow(l, n, b, size, junk) :
                          l \in {labels}, n \in {count}, b \in {buffer},
                          size \in {Len(buffer)}} : TRUE

LabelDecode(labels, file, limit, host, junk) ==
    IF ~file.present THEN Outcome("open", labels, MsgOpen, FALSE, <<>>)
    ELSE
    LET size == Len(file.bytes)
        buffer == Buffer(file.bytes)
        magic == read_header(buffer, 0, host, junk)
        count == read_header(buffer, 1, host, junk)
        n == ApplyLimit(count, limit)
        header == <<magic, count>>
    IN  IF MagicMismatch(magic, LabelMagic)
        THEN Outcome("magic", labels, MsgMagic, ~HeaderInBuffer(buffer, 0), <<magic>>)
        ELSE IF LabelSizeCheckFails(size, count)
        THEN Outcome("corrupt", labels, MsgCorrupt, ~HeaderInBuffer(buffer, 1), header)
        ELSE IF ~(DFits(n) /\ DValue(n) <= MaxItems)
        THEN [Outcome("decoded", labels, "", TRUE, header) EXCEPT !.aborted = TRUE]
        ELSE Outcome("decoded",
                     LabelLoop(Resize(labels, DValue(n), 0), DValue(n), buffer, junk),
                     "",
                     \/ ~HeaderInBuffer(buffer, 1)
                     \/ LabelHeaderSize + DValue(n) > size,
                     header)

\* Every outcome of read_mnist_label_file(labels, path, limit).
read_mnist_label_file(labels, file, limit, host) ==
    LET run == LabelDecode(labels, file, limit, host, 0)
    IN  IF ~run.ub THEN {run}     \* no junk is read: every run is this one
        ELSE {LabelDecode(labels, file, limit, host, junk) : junk \in JunkBytes}
             \cup {[run EXCEPT !.container = labels, !.aborted = TRUE]}

(***************************************************************************)
(* The files the model is run on.  A header word is stored big-endian.     *)
(***************************************************************************)
EncodeBE(w) == <<w[4], w[3], w[2], w[1]>>

Payload(n, seed) == [i \in 1..n |-> (seed + (i - 1)) % 256]

File(bytes) == [present |-> TRUE, bytes |-> bytes]

NoFile == [present |-> FALSE, bytes |-> <<>>]

ImageFile(magic, count, rows, columns, n, seed) ==
    File(EncodeBE(magic) \o EncodeBE(count) \o EncodeBE(rows) \o EncodeBE(columns)
         \o Payload(n, seed))

LabelFile(magic, count, n, seed) ==
    File(EncodeBE(magic) \o EncodeBE(count) \o Payload(n, seed))

\* 2^16 and 2^32 - 16 and 2^32 - 4 as uint32_t.
W65536 == <<0, 0, 1, 0>>
WMinus16 == <<240, 255, 255, 255>>
WMinus4 == <<252, 255, 255, 255>>

ImageSize == 1 * ImageSide * ImageSide

EmptyImages == ImageFile(U32(ImageMagic), U32(0), U32(2), U32(2), 0, 0)

EmptyLabels == LabelFile(U32(LabelMagic), U32(0), 0, 0)

\* Two 2x2 images, the second one holding bytes above 127.
SmallImages == ImageFile(U32(ImageMagic), U32(2), U32(2), U32(2), 8, 124)

\* Three 2x2 images declared, two present.
TruncatedImages == ImageFile(U32(ImageMagic), U32(3), U32(2), U32(2), 8, 1)

\* Three 1x3 images and two bytes after them.
ThreeImages == ImageFile(U32(ImageMagic), U32(3), U32(1), U32(3), 11, 250)

ImageFiles ==
    { NoFile,
      SmallImages,
      EmptyImages,
      \* two images of 0x5 pixels
      ImageFile(U32(ImageMagic), U32(2), U32(0), U32(5), 0, 0),
      ThreeImages,
      \* a label file in the place of an image file
      LabelFile(U32(LabelMagic), U32(2), 2, 7),
      \* a byte-swapped magic
      ImageFile(EncodeBE(U32(ImageMagic)), U32(1), U32(1), U32(1), 1, 3),
      TruncatedImages,
      \* count * rows * columns = 2^32: the 32-bit product is 0
      ImageFile(U32(ImageMagic), U32(1), W65536, W65536, 0, 0),
      ImageFile(U32(ImageMagic), W65536, W65536, U32(1), 4, 1),
      \* count * rows * columns + 16 = 2^32: the 32-bit sum is 0
      ImageFile(U32(ImageMagic), U32(1), WMinus16, U32(1), 2, 1),
      \* shorter than its header
      File(<<0, 0>>),
      File(EncodeBE(U32(ImageMagic)) \o <<0, 0>>),
      \* 28x28 and 29x29 images
      ImageFile(U32(ImageMagic), U32(2), U32(ImageSide), U32(ImageSide), 2 * ImageSize, 100),
      ImageFile(U32(ImageMagic), U32(1), U32(ImageSide + 1), U32(ImageSide + 1),
                (ImageSide + 1) * (ImageSide + 1), 200) }

SmallLabels == LabelFile(U32(LabelMagic), U32(2), 2, 127)

\* Three labels and a byte after them.
ThreeLabels == LabelFile(U32(LabelMagic), U32(3), 4, 254)

LabelFiles ==
    { NoFile,
      SmallLabels,
      EmptyLabels,
      ThreeLabels,
      \* an image file in the place of a label file
      SmallImages,
      \* three labels declared, two present
      LabelFile(U32(LabelMagic), U32(3), 2, 9),
      \* count + 8 = 2^32 + 4: the 32-bit sum is 4
      LabelFile(U32(LabelMagic), WMinus4, 2, 9),
      \* shorter than its header
      File(EncodeBE(U32(LabelMagic)) \o <<0, 0>>) }

\* The image file and the label file of one split: every image file with the
\* small label file, the small image file with every label file, and both
\* missing.
Pairs ==
    {<<i, SmallLabels>> : i \in ImageFiles}
    \cup {<<SmallImages, l>> : l \in LabelFiles}
    \cup {<<NoFile, NoFile>>}

FileSystem(train, test) ==
    [p \in Paths |->
        IF p = TrainImagesPath THEN train[1]
        ELSE IF p = TrainLabelsPath THEN train[2]
        ELSE IF p = TestImagesPath THEN test[1] ELSE test[2]]

\* The four files under mnist/: one split holds any pair and the other one
\* the pair of files without items, or both hold items, or some fail in
\* different ways, or nothing is there.
FileSystems ==
    {FileSystem(pair, <<EmptyImages, EmptyLabels>>) : pair \in Pairs}
    \cup {FileSystem(<<EmptyImages, EmptyLabels>>, pair) : pair \in Pairs}
    \cup {FileSystem(<<SmallImages, SmallLabels>>, <<SmallImages, SmallLabels>>),
          FileSystem(<<ThreeImages, ThreeLabels>>, <<SmallImages, SmallLabels>>),
          \* failures of different kinds next to files that decode
          FileSystem(<<NoFile, SmallImages>>, <<SmallImages, SmallLabels>>),
          FileSystem(<<SmallImages, SmallLabels>>, <<TruncatedImages, NoFile>>),
          FileSystem(<<NoFile, NoFile>>, <<NoFile, NoFile>>)}

(***************************************************************************)
(* The program's state.                                                    *)
(***************************************************************************)
VARIABLES
    host,       \* the byte order of the machine the program runs on
    fs,         \* the files under mnist/
    images,     \* the caller's image container handed to read_mnist_image_file
    labels,     \* the caller's label container handed to read_mnist_label_file
    dataset,    \* the MNIST_dataset being assembled, then resized
    limits,     \* training_limit and test_limit of the read_dataset_direct call
    pc,         \* where the program is
    console,    \* the lines printed on std::cout
    last,       \* the last operation: its arguments, the path it took, the
                \* container it was handed
    allocations,    \* the number of file buffers allocated so far
    buffers         \* the file buffers that are held, numbered as allocated

vars == <<host, fs, images, labels, dataset, limits, pc, console, last, allocations, buffers>>

Limits == 0..MaxLimit

\* The image lengths a caller's functor creates.
FuncLengths == {3, 4, 5}

\* The containers a caller hands to the decoders.
CallerImages == {<<>>, <<<<9, 9, 9, 9>>>>}

CallerLabels == {<<>>, <<5, 6, 7>>}

NoCall ==
    [op |-> "none", via |-> "", path |-> "", limit |-> 0, flen |-> 0, kind |-> "",
     ub |-> FALSE, header |-> <<>>, before |-> <<>>]

\* What a decode leaves in `last`: who called it (via), its arguments, the
\* outcome's path, and the container it was handed.
Call(op, via, path, limit, flen, o, before) ==
    [op |-> op, via |-> via, path |-> path, limit |-> limit, flen |-> flen,
     kind |-> o.kind, ub |-> o.ub, header |-> o.header, before |-> before]

\* The buffer of a run: numbered when allocated, and kept in `buffers` when
\* the run does not delete it or ends the program before it does.
Allocate(o) ==
    /\ allocations' = IF o.allocated THEN allocations + 1 ELSE allocations
    /\ buffers' = IF o.allocated /\ (o.held \/ o.aborted)
                  THEN buffers \cup {allocations + 1}
                  ELSE buffers

\* std::cout << msg << std::endl on the failure paths.
Cout(msg) == IF msg = "" THEN console ELSE Append(console, msg)

InitFor(hosts) ==
    /\ host \in hosts
    /\ fs \in FileSystems
    /\ images = <<>>
    /\ labels = <<>>
    /\ dataset = [training_images |-> <<>>, test_images |-> <<>>,
                  training_labels |-> <<>>, test_labels |-> <<>>]
    /\ limits = [training |-> 0, test |-> 0]
    /\ pc = "start"
    /\ console = <<>>
    /\ last = NoCall
    /\ allocations = 0
    /\ buffers = {}

Init == InitFor({"little"})

InitHost == InitFor(Hosts)

(***************************************************************************)
(* The decoders called on a container the caller has built.                *)
(***************************************************************************)
CallImageFile(container, path, limit, flen) ==
    /\ pc = "start"
    /\ \E o \in read_mnist_image_file(container, fs[path], limit, flen, host) :
          /\ images' = o.container
          /\ console' = Cout(o.msg)
          /\ Allocate(o)
          /\ last' = Call("read_mnist_image_file", "caller", path, limit, flen, o, container)
          /\ pc' = IF o.aborted THEN "aborted" ELSE "called"
    /\ UNCHANGED <<host, fs, labels, dataset, limits>>

CallLabelFile(container, path, limit) ==
    /\ pc = "start"
    /\ \E o \in read_mnist_label_file(container, fs[path], limit, host) :
          /\ labels' = o.container
          /\ console' = Cout(o.msg)
          /\ Allocate(o)
          /\ last' = Call("read_mnist_label_file", "caller", path, limit, 0, o, container)
          /\ pc' = IF o.aborted THEN "aborted" ELSE "called"
    /\ UNCHANGED <<host, fs, images, dataset, limits>>

(***************************************************************************)
(* read_dataset_direct(training_limit, test_limit), one statement a step.  *)
(***************************************************************************)
\* Container<Image> images; read_mnist_image_file(images, path, limit, func);
read_training_images(limit, flen) ==
    read_mnist_image_file(<<>>, fs[TrainImagesPath], limit, flen, host)

\* read_test_images that reads the training file.
read_test_images_training_path(limit, flen) ==
    read_mnist_image_file(<<>>, fs[TrainImagesPath], limit, flen, host)

read_test_images(limit, flen) ==
    read_mnist_image_file(<<>>, fs[TestImagesPath], limit, flen, host)

\* read_training_labels that does not hand its limit on.
read_training_labels_unlimited(limit) ==
    read_mnist_label_file(<<>>, fs[TrainLabelsPath], 0, host)

read_training_labels(limit) ==
    read_mnist_label_file(<<>>, fs[TrainLabelsPath], limit, host)

read_test_labels(limit) ==
    read_mnist_label_file(<<>>, fs[TestLabelsPath], limit, host)

AssembleTrainingImages(training_limit, test_limit) ==
    /\ pc = "start"
    /\ limits' = [training |-> training_limit, test |-> test_limit]
    /\ \E o \in read_training_images(training_limit, ImageSize) :
          /\ dataset' = [dataset EXCEPT !.training_images = o.container]
          /\ console' = Cout(o.msg)
          /\ Allocate(o)
          /\ last' = Call("read_mnist_image_file", "read_dataset_direct", TrainImagesPath, training_limit,
                          ImageSize, o, <<>>)
          /\ pc' = IF o.aborted THEN "aborted" ELSE "training_labels"
    /\ UNCHANGED <<host, fs, images, labels>>

\* The training labels stored in the field of the test labels.
AssembleTrainingLabels_test_field ==
    /\ pc = "training_labels"
    /\ \E o \in read_training_labels(limits.training) :
          /\ dataset' = [dataset EXCEPT !.test_labels = o.container]
          /\ console' = Cout(o.msg)
          /\ Allocate(o)
          /\ last' = Call("read_mnist_label_file", "read_dataset_direct", TrainLabelsPath, limits.training,
                          0, o, <<>>)
          /\ pc' = IF o.aborted THEN "aborted" ELSE "test_images"
    /\ UNCHANGED <<host, fs, images, labels, limits>>

AssembleTrainingLabels ==
    /\ pc = "training_labels"
    /\ \E o \in read_training_labels(limits.training) :
          /\ dataset' = [dataset EXCEPT !.training_labels = o.container]
          /\ console' = Cout(o.msg)
          /\ Allocate(o)
          /\ last' = Call("read_mnist_label_file", "read_dataset_direct", TrainLabelsPath, limits.training,
                          0, o, <<>>)
          /\ pc' = IF o.aborted THEN "aborted" ELSE "test_images"
    /\ UNCHANGED <<host, fs, images, labels, limits>>

AssembleTestImages ==
    /\ pc = "test_images"
    /\ \E o \in read_test_images(limits.test, ImageSize) :
          /\ dataset' = [dataset EXCEPT !.test_images = o.container]
          /\ console' = Cout(o.msg)
          /\ Allocate(o)
          /\ last' = Call("read_mnist_image_file", "read_dataset_direct", TestImagesPath, limits.test,
                          ImageSize, o, <<>>)
          /\ pc' = IF o.aborted THEN "aborted" ELSE "test_labels"
    /\ UNCHANGED <<host, fs, images, labels, limits>>

AssembleTestLabels ==
    /\ pc = "test_labels"
    /\ \E o \in read_test_labels(limits.test) :
          /\ dataset' = [dataset EXCEPT !.test_labels = o.container]
          /\ console' = Cout(o.msg)
          /\ Allocate(o)
          /\ last' = Call("read_mnist_label_file", "read_dataset_direct", TestLabelsPath, limits.test,
                          0, o, <<>>)
          /\ pc' = IF o.aborted THEN "aborted" ELSE "loaded"
    /\ UNCHANGED <<host, fs, images, labels, limits>>

(***************************************************************************)
(* MNIST_dataset::resize_training and resize_test.                         *)
(***************************************************************************)
\* resize_training that forgets the labels.
resize_training_images_only(d, new_size) ==
    IF Len(d.training_images) > new_size
    THEN [d EXCEPT !.training_images = Resize(d.training_images, new_size, <<>>)]
    ELSE d

resize_training(d, new_size) ==
    IF Len(d.training_images) > new_size
    THEN [d EXCEPT !.training_images = Resize(d.training_images, new_size, <<>>),
                   !.training_labels = Resize(d.training_labels, new_size, 0)]
    ELSE d

\* resize_test without the guard: std::vector::resize also grows.
resize_test_unguarded(d, new_size) ==
    [d EXCEPT !.test_images = Resize(d.test_images, new_size, <<>>),
              !.test_labels = Resize(d.test_labels, new_size, 0)]

resize_test(d, new_size) ==
    IF Len(d.test_images) > new_size
    THEN [d EXCEPT !.test_images = Resize(d.test_images, new_size, <<>>),
                   !.test_labels = Resize(d.test_labels, new_size, 0)]
    ELSE d

\* What a resize leaves in `last`: its argument and the four lengths before it.
Lengths(d) ==
    <<Len(d.training_images), Len(d.training_labels), Len(d.test_images), Len(d.test_labels)>>

Resized(op, new_size) ==
    [NoCall EXCEPT !.op = op, !.via = "caller", !.limit = new_size,
                   !.before = Lengths(dataset)]

ResizeTraining(new_size) ==
    /\ pc = "loaded"
    /\ dataset' = resize_training(dataset, new_size)
    /\ last' = Resized("resize_training", new_size)
    /\ UNCHANGED <<host, fs, images, labels, limits, pc, console, allocations, buffers>>

ResizeTest(new_size) ==
    /\ pc = "loaded"
    /\ dataset' = resize_test(dataset, new_size)
    /\ last' = Resized("resize_test", new_size)
    /\ UNCHANGED <<host, fs, images, labels, limits, pc, console, allocations, buffers>>

(***************************************************************************)
(* The older header (unnamed/part_001): its decoders take the path and the *)
(* limit and return the container, its read_dataset assembles the dataset  *)
(* from them.  read_header, the messages and the paths are the same.       *)
(***************************************************************************)
\* Container<Sub<Pixel>> images; for(i < count){ images.emplace_back(rows *
\* columns); for(j < rows * columns) images[i][j] = ...; } return images;
\* and return {} on the failure paths.
ImageDecode_part_001(file, limit, host_, junk) ==
    IF ~file.present THEN Outcome("open", <<>>, MsgOpen, FALSE, <<>>)
    ELSE
    LET size == Len(file.bytes)
        buffer == Buffer(file.bytes)
        magic == read_header(buffer, 0, host_, junk)
        count == read_header(buffer, 1, host_, junk)
        rows == read_header(buffer, 2, host_, junk)
        columns == read_header(buffer, 3, host_, junk)
        n == ApplyLimit(count, limit)
        rc == Clamp(U32Mul(rows, columns), size)
        header == <<magic, count, rows, columns>>
    IN  IF MagicMismatch(magic, ImageMagic)
        THEN Outcome("magic", <<>>, MsgMagic, ~HeaderInBuffer(buffer, 0), <<magic>>)
        ELSE IF ImageSizeCheckFails(size, count, rows, columns)
        THEN Outcome("corrupt", <<>>, MsgCorrupt, ~HeaderInBuffer(buffer, 3), header)
        ELSE IF ~(DFits(n) /\ DValue(n) <= MaxItems) \/ (rc > size /\ n # U32(0))
        THEN [Outcome("decoded", <<>>, "", TRUE, header) EXCEPT !.aborted = TRUE]
        ELSE Outcome("decoded",
                     ImageLoop(<<>>, DValue(n), rc, rc, buffer, junk),
                     "",
                     \/ ~HeaderInBuffer(buffer, 3)
                     \/ ReadsPastBuffer(DValue(n), rc, size),
                     header)

read_mnist_image_file_part_001(file, limit, host_) ==
    LET run == ImageDecode_part_001(file, limit, host_, 0)
    IN  IF ~run.ub THEN {run}
        ELSE {ImageDecode_part_001(file, limit, host_, junk) : junk \in JunkBytes}
             \cup {[run EXCEPT !.container = <<>>, !.aborted = TRUE]}

\* Container<Label> labels(count); if(limit > 0 && count > limit) count =
\* limit; for(i < count) labels[i] = ...; return labels; and return {} on
\* the failure paths.  The container is made before the limit is applied.
LabelDecode_part_001(file, limit, host_, junk) ==
    IF ~file.present THEN Outcome("open", <<>>, MsgOpen, FALSE, <<>>)
    ELSE
    LET size == Len(file.bytes)
        buffer == Buffer(file.bytes)
        magic == read_header(buffer, 0, host_, junk)
        count == read_header(buffer, 1, host_, junk)
        n == ApplyLimit(count, limit)
        header == <<magic, count>>
    IN  IF MagicMismatch(magic, LabelMagic)
        THEN Outcome("magic", <<>>, MsgMagic, ~HeaderInBuffer(buffer, 0), <<magic>>)
        ELSE IF LabelSizeCheckFails(size, count)
        THEN Outcome("corrupt", <<>>, MsgCorrupt, ~HeaderInBuffer(buffer, 1), header)
        ELSE IF ~(DFits(count) /\ DValue(count) <= MaxItems)
        THEN [Outcome("decoded", <<>>, "", TRUE, header) EXCEPT !.aborted = TRUE]
        ELSE Outcome("decoded",
                     LabelLoop(Resize(<<>>, DValue(count), 0), DValue(n), buffer, junk),
                     "",
                     \/ ~HeaderInBuffer(buffer, 1)
                     \/ LabelHeaderSize + DValue(n) > size,
                     header)

read_mnist_label_file_part_001(file, limit, host_) ==
    LET run == LabelDecode_part_001(file, limit, host_, 0)
    IN  IF ~run.ub THEN {run}
        ELSE {LabelDecode_part_001(file, limit, host_, junk) : junk \in JunkBytes}
             \cup {[run EXCEPT !.container = <<>>, !.aborted = TRUE]}

ImageOp_part_001 == "part_001.read_mnist_image_file"
LabelOp_part_001 == "part_001.read_mnist_label_file"

\* One statement of the older read_dataset: the decode of the file at `path`
\* stored in its field of the dataset.
Step_part_001(op, outcomes, path, limit, from, to) ==
    /\ pc = from
    /\ \E o \in outcomes :
          /\ dataset' = IF path = TrainImagesPath THEN [dataset EXCEPT !.training_images = o.container]
                        ELSE IF path = TrainLabelsPath THEN [dataset EXCEPT !.training_labels = o.container]
                        ELSE IF path = TestImagesPath THEN [dataset EXCEPT !.test_images = o.container]
                        ELSE [dataset EXCEPT !.test_labels = o.container]
          /\ console' = Cout(o.msg)
          /\ Allocate(o)
          /\ last' = Call(op, "part_001.read_dataset", path, limit, 0, o, <<>>)
          /\ pc' = IF o.aborted THEN "aborted" ELSE to
    /\ UNCHANGED <<host, fs, images, labels>>

TrainingImages_part_001(training_limit, test_limit) ==
    /\ limits' = [training |-> training_limit, test |-> test_limit]
    /\ Step_part_001(ImageOp_part_001,
                     read_mnist_image_file_part_001(fs[TrainImagesPath], training_limit, host),
                     TrainImagesPath, training_limit, "start", "part_001_training_labels")

TrainingLabels_part_001 ==
    /\ UNCHANGED limits
    /\ Step_part_001(LabelOp_part_001,
                     read_mnist_label_file_part_001(fs[TrainLabelsPath], limits.training, host),
                     TrainLabelsPath, limits.training,
                     "part_001_training_labels", "part_001_test_images")

TestImages_part_001 ==
    /\ UNCHANGED limits
    /\ Step_part_001(ImageOp_part_001,
                     read_mnist_image_file_part_001(fs[TestImagesPath], limits.test, host),
                     TestImagesPath, limits.test,
                     "part_001_test_images", "part_001_test_labels")

TestLabels_part_001 ==
    /\ UNCHANGED limits
    /\ Step_part_001(LabelOp_part_001,
                     read_mnist_label_file_part_001(fs[TestLabelsPath], limits.test, host),
                     TestLabelsPath, limits.test,
                     "part_001_test_labels", "part_001_loaded")

Next ==
    \/ \E container \in CallerImages, path \in Paths, limit \in Limits, flen \in FuncLengths :
          CallImageFile(container, path, limit, flen)
    \/ \E container \in CallerLabels, path \in Paths, limit \in Limits :
          CallLabelFile(container, path, limit)
    \/ \E training_limit \in Limits, test_limit \in Limits :
          AssembleTrainingImages(training_limit, test_limit)
    \/ AssembleTrainingLabels
    \/ AssembleTestImages
    \/ AssembleTestLabels
    \/ \E new_size \in Limits : ResizeTraining(new_size)
    \/ \E new_size \in Limits : ResizeTest(new_size)
    \/ \E training_limit \in Limits, test_limit \in Limits :
          TrainingImages_part_001(training_limit, test_limit)
    \/ TrainingLabels_part_001
    \/ TestImages_part_001
    \/ TestLabels_part_001

Spec == Init /\ [][Next]_vars

SpecHost == InitHost /\ [][Next]_vars

(***************************************************************************)
(* What a file declares, read from its bytes in unbounded arithmetic, and  *)
(* what the last decode handed back: the terms the properties are stated   *)
(* in.                                                                     *)
(***************************************************************************)
ImageOp == "read_mnist_image_file"
LabelOp == "read_mnist_label_file"

\* The integer the four bytes at [4 * position, 4 * position + 4) encode in
\* big-endian order, as digits.
WordAt(bytes, position) ==
    <<bytes[(WordSize * position) + 4], bytes[(WordSize * position) + 3],
      bytes[(WordSize * position) + 2], bytes[(WordSize * position) + 1]>>

HasWords(file, n) == file.present /\ Len(file.bytes) >= WordSize * n

\* d <= n for an integer n below 2^31.
AtMost(d, n) == DFits(d) /\ DValue(d) <= n

\* count * rows * columns of an image file, not cut to 32 bits.
DeclaredPixels(file) ==
    DMul(DMul(WordAt(file.bytes, 1), WordAt(file.bytes, 2), 2 * WordSize),
         WordAt(file.bytes, 3), 3 * WordSize)

\* rows * columns of an image file, not cut to 32 bits.
DeclaredImageLength(file) ==
    DMul(WordAt(file.bytes, 2), WordAt(file.bytes, 3), 2 * WordSize)

DeclaresImages(file) ==
    HasWords(file, 4) /\ WordAt(file.bytes, 0) = U32(ImageMagic)

ValidImageFile(file) ==
    /\ DeclaresImages(file)
    /\ AtMost(DeclaredPixels(file), Len(file.bytes) - ImageHeaderSize)

TruncatedImageFile(file) ==
    /\ DeclaresImages(file)
    /\ ~AtMost(DeclaredPixels(file), Len(file.bytes) - ImageHeaderSize)

ValidLabelFile(file) ==
    /\ HasWords(file, 2)
    /\ WordAt(file.bytes, 0) = U32(LabelMagic)
    /\ AtMost(WordAt(file.bytes, 1), Len(file.bytes) - LabelHeaderSize)

\* count when limit = 0 or limit >= count, and limit when 0 < limit < count.
EffectiveCount(file, limit) ==
    IF limit > 0 /\ IntLess(limit, WordAt(file.bytes, 1))
    THEN limit
    ELSE DValue(WordAt(file.bytes, 1))

\* The container the last decode handed back to its caller.
Returned ==
    IF last.via = "caller"
    THEN IF last.op = ImageOp THEN images ELSE labels
    ELSE IF last.path = TrainImagesPath THEN dataset.training_images
    ELSE IF last.path = TrainLabelsPath THEN dataset.training_labels
    ELSE IF last.path = TestImagesPath THEN dataset.test_images
    ELSE dataset.test_labels

\* The file the last decode read: fs never changes.
LastFile == fs[last.path]

\* Image i (from 0) the last decode produced: the containers grow at the end.
ProducedImage(i) == Returned[Len(last.before) + i + 1]

(***************************************************************************)
(* The image decoder.                                                      *)
(***************************************************************************)

\* C1: an image file with magic 0x803 whose declared count * rows * columns,
\* as an unbounded integer, exceeds its size - 16 ends in the corrupt-file
\* outcome, with no image produced and no byte read past the buffer,
\* whatever the 32-bit values of count, rows and columns.
C1_TruncatedImageFileIsCorrupt ==
    (last.op = ImageOp /\ TruncatedImageFile(LastFile))
        => /\ last.kind = "corrupt"
           /\ Returned = last.before
           /\ ~last.ub

C3_ImageHasRowsTimesColumnsElements ==
    (last.op = ImageOp /\ ValidImageFile(LastFile))
        => \A p \in (Len(last.before) + 1)..Len(Returned) :
               Len(Returned[p]) = DValue(DeclaredImageLength(LastFile))

\* C4: for a valid image file and any limit, element j of decoded image i is
\* the unsigned value of file byte 16 + i * rows * columns + j, for every i
\* below the effective count and every j < rows * columns.
C4_ImagesAreFileBytesInOrder ==
    (last.op = ImageOp /\ ValidImageFile(LastFile))
        => LET rc == DValue(DeclaredImageLength(LastFile))
           IN  \A i \in 0..(EffectiveCount(LastFile, last.limit) - 1) :
                   /\ Len(last.before) + i + 1 <= Len(Returned)
                   /\ \A j \in 0..(rc - 1) :
                          /\ j + 1 <= Len(ProducedImage(i))
                          /\ ProducedImage(i)[j + 1]
                                 = LastFile.bytes[ImageHeaderSize + (i * rc) + j + 1]

(***************************************************************************)
(* The label decoder.                                                      *)
(***************************************************************************)

\* C5: for a valid label file (magic 0x801, size >= count + 8) and any limit
\* the label decoder returns exactly min(count, limit or infinity) labels,
\* and label i is the unsigned value of file byte 8 + i.
C5_LabelsAreFileBytesInOrder ==
    (last.op = LabelOp /\ ValidLabelFile(LastFile))
        => /\ last.kind = "decoded"
           /\ Len(Returned) = EffectiveCount(LastFile, last.limit)
           /\ \A i \in 0..(Len(Returned) - 1) :
                  Returned[i + 1] = LastFile.bytes[LabelHeaderSize + i + 1]

\* A limit below the count of a valid label file has cut the labels to a
\* prefix that starts with a byte above 127, in a container that held labels.
C5_Witness ==
    /\ last.op = LabelOp
    /\ ValidLabelFile(LastFile)
    /\ last.limit > 0
    /\ IntLess(last.limit, WordAt(LastFile.bytes, 1))
    /\ last.before # <<>>
    /\ Len(Returned) = last.limit
    /\ Returned[1] > 127

(***************************************************************************)
(* Both decoders.                                                          *)
(***************************************************************************)
Decoders == {ImageOp, LabelOp}

ExpectedMagic(op) == IF op = ImageOp THEN U32(ImageMagic) ELSE U32(LabelMagic)

WrongMagic(file, op) == HasWords(file, 1) /\ WordAt(file.bytes, 0) # ExpectedMagic(op)

\* C6: a file whose first header word is not 0x00000803 (image decoder) or
\* not 0x00000801 (label decoder) makes the decoder take the invalid-format
\* outcome and produce no item, whatever follows the word and whatever the
\* limit.
C6_WrongMagicIsRejected ==
    (last.op \in Decoders /\ WrongMagic(LastFile, last.op))
        => /\ last.kind = "magic"
           /\ Returned = last.before
           /\ console # <<>>
           /\ console[Len(console)] = MsgMagic

\* The image decoder, given a limit, has rejected a file that holds a whole
\* header and a payload after a wrong magic.
C6_Witness ==
    /\ last.op = ImageOp
    /\ WrongMagic(LastFile, ImageOp)
    /\ Len(LastFile.bytes) > ImageHeaderSize
    /\ last.limit > 0
    /\ last.kind = "magic"
    /\ Returned = last.before

\* C7: read_header returns the integer the four bytes at
\* [4 * position, 4 * position + 4) encode in big-endian order, on a
\* little-endian and on a big-endian host: every header word a decoder has
\* read from inside its buffer is the word the file holds there.
C7_ReadHeaderDecodesBigEndian ==
    (last.op \in Decoders)
        => \A k \in 1..Len(last.header) :
               HasWords(LastFile, k) => last.header[k] = WordAt(LastFile.bytes, k - 1)

Failures == {"open", "magic", "corrupt"}

\* The outcomes of the last decode's call, had `file` been at its path.
OutcomesOn(file) ==
    IF last.op = ImageOp
    THEN read_mnist_image_file(last.before, file, last.limit, last.flen, host)
    ELSE read_mnist_label_file(last.before, file, last.limit, host)

\* A valid file that declares no item.
ZeroItemFile == IF last.op = ImageOp THEN EmptyImages ELSE EmptyLabels

\* C8: a decoder failure reaches the caller as an explicit error result:
\* what the caller gets back from a failing decode (file not opened, wrong
\* magic, payload larger than the file) differs from what it gets back from
\* decoding a valid file of zero items, and from what it gets back from a
\* failure of another kind.
C8_FailureIsAnExplicitResult ==
    (last.op \in Decoders /\ last.kind \in Failures)
        => /\ \A o \in OutcomesOn(ZeroItemFile) : o.container # Returned
           /\ \A p \in Paths : \A o \in OutcomesOn(fs[p]) :
                  (o.kind \in Failures /\ o.kind # last.kind) => o.container # Returned

(***************************************************************************)
(* resize_training and resize_test.                                        *)
(***************************************************************************)
ResizeTrainingStep == pc = "loaded" /\ last'.op = "resize_training"

ResizeTestStep == pc = "loaded" /\ last'.op = "resize_test"

Resizes == {"resize_training", "resize_test"}

\* C11: from any dataset read_dataset_direct returns, also one whose label
\* file did not decode, a resize_training or resize_test call with any
\* argument leaves none of the four collections longer than it was before
\* the call.
C11_ResizeNeverGrows ==
    (last.op \in Resizes)
        => \A k \in 1..4 : Lengths(dataset)[k] <= last.before[k]

(***************************************************************************)
(* read_dataset_direct.                                                    *)
(***************************************************************************)

\* A well-formed image file and a well-formed label file of the same count.
WellFormedSplit(image_file, label_file) ==
    /\ ValidImageFile(image_file)
    /\ ValidLabelFile(label_file)
    /\ WordAt(image_file.bytes, 1) = WordAt(label_file.bytes, 1)

WellFormedFiles ==
    /\ WellFormedSplit(fs[TrainImagesPath], fs[TrainLabelsPath])
    /\ WellFormedSplit(fs[TestImagesPath], fs[TestLabelsPath])

\* C12: when the image file and the label file of each split are well-formed
\* and declare the same count, the dataset read_dataset_direct returns has as
\* many training labels as training images and as many test labels as test
\* images, for every training limit and test limit, and so it stays under
\* any sequence of resize_training and resize_test.
C12_AsManyLabelsAsImages ==
    (pc = "loaded" /\ WellFormedFiles)
        => /\ Len(dataset.training_images) = Len(dataset.training_labels)
           /\ Len(dataset.test_images) = Len(dataset.test_labels)

\* A training split of well-formed files, read with a limit below their count
\* and then cut further by resize_training, next to a test split that holds
\* items.
C12_Witness ==
    /\ pc = "loaded"
    /\ WellFormedFiles
    /\ limits.training > 0
    /\ IntLess(limits.training, WordAt(fs[TrainImagesPath].bytes, 1))
    /\ last.op = "resize_training"
    /\ last.limit > 0
    /\ last.limit < last.before[1]
    /\ Len(dataset.training_labels) = last.limit
    /\ Len(dataset.test_images) > 0

\* The outcomes of a decoder run alone on the file at `path`, into an empty
\* container, that hand a container back.
Alone(path, limit) ==
    {o \in (IF path \in {TrainImagesPath, TestImagesPath}
            THEN read_mnist_image_file(<<>>, fs[path], limit, ImageSize, host)
            ELSE read_mnist_label_file(<<>>, fs[path], limit, host)) : ~o.aborted}

\* The lines a sequence of outcomes prints.
Lines(outcomes) ==
    SelectSeq([k \in 1..Len(outcomes) |-> outcomes[k].msg], LAMBDA msg : msg # "")

\* read_dataset_direct has returned and the dataset has not been resized.
Returns == pc = "loaded" /\ last.op \notin Resizes

\* C13: the collection read_dataset_direct stores for each of the four files
\* is what the file's decoder returns when run alone on it with the same
\* limit, whatever the outcome (success, open failure, wrong magic, corrupt
\* file) of the other three decodes, and all four decodes are made: the
\* lines printed are those of the four decodes, in their order.
C13_DecodesAreIsolated ==
    /\ Returns
          => \E a \in Alone(TrainImagesPath, limits.training),
                b \in Alone(TrainLabelsPath, limits.training),
                c \in Alone(TestImagesPath, limits.test),
                d \in Alone(TestLabelsPath, limits.test) :
                 /\ dataset = [training_images |-> a.container,
                               training_labels |-> b.container,
                               test_images |-> c.container,
                               test_labels |-> d.container]
                 /\ console = Lines(<<a, b, c, d>>)
    /\ (pc = "aborted" /\ last.via = "read_dataset_direct") => last.ub

\* read_dataset_direct has returned a dataset whose training images failed
\* to open, whose training labels had a wrong magic and whose test split
\* holds the images and the labels of its files.
C13_Witness ==
    /\ Returns
    /\ ~fs[TrainImagesPath].present
    /\ WrongMagic(fs[TrainLabelsPath], LabelOp)
    /\ console = <<MsgOpen, MsgMagic>>
    /\ Len(dataset.test_images) > 0
    /\ Len(dataset.test_labels) > 0

\* The dataset field read_dataset_direct stores the decode of `path` in, and
\* the place of that decode among the four.
FieldOf(path) ==
    IF path = TrainImagesPath THEN dataset.training_images
    ELSE IF path = TrainLabelsPath THEN dataset.training_labels
    ELSE IF path = TestImagesPath THEN dataset.test_images
    ELSE dataset.test_labels

Order(path) ==
    IF path = TrainImagesPath THEN 1
    ELSE IF path = TrainLabelsPath THEN 2
    ELSE IF path = TestImagesPath THEN 3
    ELSE 4

\* C14: no field of the dataset is written before all four decodes (training
\* images, training labels, test images, test labels) have completed.
C14_NoFieldBeforeAllDecodes ==
    (pc # "loaded") => \A path \in Paths : FieldOf(path) = <<>>

\* C14 amended: no field of the dataset is written before the decode of its
\* own file has completed, the decodes being made in the order training
\* images, training labels, test images, test labels, and the dataset is
\* returned after the fourth.
C14_NoFieldBeforeItsDecode ==
    /\ (last.via \in {"", "caller"} /\ last.op \notin Resizes)
          => \A path \in Paths : FieldOf(path) = <<>>
    /\ (last.via = "read_dataset_direct")
          => \A path \in Paths :
                 (\/ Order(path) > Order(last.path)
                  \/ (path = last.path /\ pc = "aborted"))
                     => FieldOf(path) = <<>>
    /\ Returns => (last.via = "read_dataset_direct" /\ last.path = TestLabelsPath)

\* The training fields hold the items of their files when the test images,
\* whose file holds images, are about to be decoded.
C14_Witness ==
    /\ pc = "test_images"
    /\ dataset.training_images # <<>>
    /\ dataset.training_labels # <<>>
    /\ dataset.test_images = <<>>
    /\ dataset.test_labels = <<>>
    /\ ValidImageFile(fs[TestImagesPath])
    /\ EffectiveCount(fs[TestImagesPath], limits.test) > 0

(***************************************************************************)
(* The file buffers.                                                       *)
(***************************************************************************)

C16_HeaderWordsAreInsideTheBuffer ==
    (last.op \in Decoders /\ LastFile.present)
        => \A k \in 1..Len(last.header) : HasWords(LastFile, k)

TruncatedLabelFile(file) ==
    /\ HasWords(file, 2)
    /\ WordAt(file.bytes, 0) = U32(LabelMagic)
    /\ ~AtMost(WordAt(file.bytes, 1), Len(file.bytes) - LabelHeaderSize)

\* C17: the size check is made on the declared count, before the limit is
\* applied: a file with the right magic whose size is below
\* count * rows * columns + 16 (images) or count + 8 (labels) takes the
\* corrupt-file outcome and yields no item for every limit, also when it
\* holds all the bytes of the first `limit` items.
C17_SizeCheckBeforeLimit ==
    /\ (last.op = ImageOp /\ TruncatedImageFile(LastFile))
          => (last.kind = "corrupt" /\ Returned = last.before)
    /\ (last.op = LabelOp /\ TruncatedLabelFile(LastFile))
          => (last.kind = "corrupt" /\ Returned = last.before)

\* C18: read_mnist_image_file called with a container that holds k > 0
\* images and a valid file leaves those k images as they were and stores
\* decoded image i at index k + i, with the pixels of image i of the file;
\* on a failure outcome the container is left as it was handed in.
C18_FilledContainerIsAppendedTo ==
    (last.op = ImageOp /\ last.before # <<>>)
        => /\ ValidImageFile(LastFile)
                 => LET rc == DValue(DeclaredImageLength(LastFile))
                        k == Len(last.before)
                    IN  /\ Len(Returned) >= k
                        /\ \A p \in 1..k : Returned[p] = last.before[p]
                        /\ \A i \in 0..(EffectiveCount(LastFile, last.limit) - 1) :
                               /\ k + i + 1 <= Len(Returned)
                               /\ \A j \in 0..(rc - 1) :
                                      /\ j + 1 <= Len(Returned[k + i + 1])
                                      /\ Returned[k + i + 1][j + 1]
                                             = LastFile.bytes[ImageHeaderSize + (i * rc) + j + 1]
           /\ (last.kind \in Failures) => Returned = last.before

(***************************************************************************)
(* The older header against mnist_reader.hpp.                              *)
(***************************************************************************)

\* C19: for every label file and every limit the older read_mnist_label_file
\* returns a collection of the length and the contents that
\* read_mnist_label_file of mnist_reader.hpp returns, so that the dataset the
\* older read_dataset assembles has, like the one of read_dataset_direct, as
\* many labels as images in each split, also under a limit below the files'
\* count.
C19_OlderLabelDecoderAgrees ==
    /\ (last.op = LabelOp_part_001 /\ pc # "aborted")
          => \E o \in Alone(last.path, last.limit) : FieldOf(last.path) = o.container
    /\ (pc = "part_001_loaded" /\ WellFormedFiles)
          => /\ Len(dataset.training_images) = Len(dataset.training_labels)
             /\ Len(dataset.test_images) = Len(dataset.test_labels)

====
